---- MODULE Spec2Model ----
(***************************************************************************)
(* LinkedList<T> (src/LinkedList.h): a singly linked list whose nodes are  *)
(* owned through std::unique_ptr.  The heap is a finite pool of node cells;*)
(* a unique_ptr is a cell index or Null.  The program is single threaded:  *)
(* pc says whether clean() is running; its loop advances one iteration   *)
(* per step, every other member function is one step.                     *)
(***************************************************************************)
EXTENDS Integers, Sequences, FiniteSets, TLC

\* ------------------------------------------------------------------ bounds
NumLists == 2
MaxNodes == 4
MaxValue == 1

Lists  == 1..NumLists
Nodes  == 1..MaxNodes
Values == 0..MaxValue
Null   == 0

VARIABLES
    alive,   \* alive[l]: list object l is constructed and not destroyed
    ptrHead, \* ptrHead[l]: LinkedList::ptrHead
    heap,    \* heap[n]: the Node at address n (live, element, ptrNext)
    pc,      \* "clean" while clean() runs, "idle" between calls
    self,    \* the list the last call ran on (this)
    arg,     \* the list passed to the last call (0 if none)
    dtor,    \* the clean() in progress was called by ~LinkedList()
    os,      \* what the last call wrote to its stream
    ret,     \* what the last call returned (<<>> if nothing)
    err,     \* the exception the last call threw ("none" if none)
    log,     \* the ~Node() runs of the last call, in order
    op,      \* the name of the last call
    run      \* the run of pushes, then pops, being followed on one list

vars == <<alive, ptrHead, heap, pc, self, arg, dtor, os, ret, err, log, op, run>>

\* ------------------------------------------------------------ heap cells
FreeCell == [live |-> FALSE, element |-> 0, ptrNext |-> Null]

\* Node(const T& data) : element{data}, ptrNext{nullptr}
NewCell(data) == [live |-> TRUE, element |-> data, ptrNext |-> Null]

FreeNodes(h) == {n \in Nodes : ~h[n].live}

\* std::make_unique<Node>: an address not in use (the lowest one).  A call
\* that allocates is taken only when enough cells are free: a failed
\* allocation ends the program and is not followed.
Alloc(h) == CHOOSE n \in FreeNodes(h) : \A m \in FreeNodes(h) : n <= m

Min(a, b) == IF a <= b THEN a ELSE b

\* delete of the Node at n, at nesting depth d: ~Node() runs (one log entry),
\* then the member ptrNext is destroyed, which deletes the node it owns.
\* A delete of a cell that is not live is recorded as bad (undefined), and
\* so is a chain of deletes longer than the heap.
RECURSIVE DeleteNode(_, _, _)
DeleteNode(h, n, d) ==
    IF ~h[n].live
    THEN [heap |-> h, bad |-> TRUE,
          log |-> <<[node |-> n, next |-> Null, depth |-> d]>>]
    ELSE LET ev  == [node |-> n, next |-> h[n].ptrNext, depth |-> d]
             sub == IF h[n].ptrNext = Null
                    THEN [heap |-> h, bad |-> FALSE, log |-> <<>>]
                    ELSE IF d > MaxNodes
                    THEN [heap |-> h, bad |-> TRUE, log |-> <<>>]
                    ELSE DeleteNode(h, h[n].ptrNext, d + 1)
         IN  [heap |-> [sub.heap EXCEPT ![n] = FreeCell],
              bad  |-> sub.bad,
              log  |-> <<ev>> \o sub.log]

\* unique_ptr::reset / ~unique_ptr on a pointer that may be null
DeleteOwned(h, p) ==
    IF p = Null THEN [heap |-> h, bad |-> FALSE, log |-> <<>>]
    ELSE DeleteNode(h, p, 1)

\* The head reset without its link moved out first: the old head is deleted
\* while it still owns the rest of the chain.
DetachHead_cascading(h, hd) ==
    LET del == DeleteNode(h, hd, 1)
    IN  [head |-> Null, heap |-> del.heap, log |-> del.log, bad |-> del.bad]

\* ptrHead = std::move(ptrHead->ptrNext), for ptrHead = hd # nullptr:
\* operator=(unique_ptr&& u) is reset(u.release()): the source link is
\* emptied, the head takes its pointer, then the old head node is deleted.
DetachHead(h, hd) ==
    LET p   == h[hd].ptrNext
        h1  == [h EXCEPT ![hd].ptrNext = Null]
        del == DeleteNode(h1, hd, 1)
    IN  [head |-> p, heap |-> del.heap, log |-> del.log, bad |-> del.bad]

\* The nodes met following ptrNext from p, at most MaxNodes + 1 of them.
RECURSIVE Walk(_, _, _)
Walk(h, p, fuel) ==
    IF p = Null \/ fuel = 0 THEN <<>>
    ELSE <<p>> \o Walk(h, h[p].ptrNext, fuel - 1)

ChainOf(h, p) == Walk(h, p, MaxNodes + 1)

ElementsOf(h, p) ==
    LET c == ChainOf(h, p) IN [i \in 1..Len(c) |-> h[c[i]].element]

Sequence(l) == ElementsOf(heap, ptrHead[l])
Chain(l)    == ChainOf(heap, ptrHead[l])

Reverse(s) == [i \in 1..Len(s) |-> s[Len(s) + 1 - i]]
ToSet(s)   == {s[i] : i \in 1..Len(s)}

\* The loop with each new node put in front of the new list, as push does.
RECURSIVE CopyLoop_reversed(_, _, _, _)
CopyLoop_reversed(h, ptrNewHead, ptrCurrNode, ptrCursor) ==
    IF ptrCursor = Null THEN [heap |-> h, head |-> ptrNewHead]
    ELSE LET ptrTemp == Alloc(h)
             h1 == [h EXCEPT ![ptrTemp] = NewCell(h[ptrCursor].element),
                             ![ptrTemp].ptrNext = ptrNewHead]
         IN  CopyLoop_reversed(h1, ptrTemp, ptrTemp, h1[ptrCursor].ptrNext)

\* No loop: the new list takes the pointer to the nodes of the copied one.
CopyLoop_shallow(h, ptrNewHead, ptrCurrNode, ptrCursor) ==
    [heap |-> h, head |-> ptrCursor]

\* The while loop of the copy constructor, from its locals.
RECURSIVE CopyLoop(_, _, _, _)
CopyLoop(h, ptrNewHead, ptrCurrNode, ptrCursor) ==
    IF ptrCursor = Null THEN [heap |-> h, head |-> ptrNewHead]
    ELSE LET ptrTemp == Alloc(h)
             h1 == [h EXCEPT ![ptrTemp] = NewCell(h[ptrCursor].element)]
         IN  IF ptrNewHead = Null
             THEN CopyLoop(h1, ptrTemp, ptrTemp, h1[ptrCursor].ptrNext)
             ELSE CopyLoop([h1 EXCEPT ![ptrCurrNode].ptrNext = ptrTemp],
                           ptrNewHead, ptrTemp, h1[ptrCursor].ptrNext)

\* The loop testing ptrCursor->ptrNext: it stops before the last node.
RECURSIVE PrintLoop_stopsEarly(_, _, _)
PrintLoop_stopsEarly(h, ptrCursor, out) ==
    IF ptrCursor = Null \/ h[ptrCursor].ptrNext = Null
    THEN out \o <<"NULL", "\n">>
    ELSE PrintLoop_stopsEarly(h, h[ptrCursor].ptrNext,
                   out \o <<ToString(h[ptrCursor].element), " -> ">>)

\* The while loop of print and the line after it, from its cursor.
RECURSIVE PrintLoop(_, _, _)
PrintLoop(h, ptrCursor, out) ==
    IF ptrCursor = Null THEN out \o <<"NULL", "\n">>
    ELSE PrintLoop(h, h[ptrCursor].ptrNext,
                   out \o <<ToString(h[ptrCursor].element), " -> ">>)

\* ---------------------------------------------- the run being followed
NoRun == [list |-> 0, phase |-> "none", before |-> <<>>, pushed |-> <<>>,
          n |-> 0, pops |-> 0]

\* A run on l starts: l holds s and nothing was pushed yet.
StartRun(l, s) == [list |-> l, phase |-> "push", before |-> s,
                   pushed |-> <<>>, n |-> 0, pops |-> 0]

RunPush(l, data, s) ==
    IF run.list = l /\ run.phase = "push"
    THEN [run EXCEPT !.pushed = Append(@, data)]
    ELSE [StartRun(l, s) EXCEPT !.pushed = <<data>>]

RunPop(l) ==
    IF run.list # l THEN run
    ELSE IF run.phase = "push" /\ run.before = <<>>
    THEN [run EXCEPT !.phase = "pop", !.n = Len(run.pushed),
                     !.pushed = <<>>, !.pops = 1]
    ELSE IF run.phase = "pop"
    THEN [run EXCEPT !.pops = Min(@ + 1, run.n + 1)]
    ELSE NoRun

RunEnd(l) == IF run.list = l THEN NoRun ELSE run

\* --------------------------------------------------------------- initial
Init ==
    /\ alive = [l \in Lists |-> FALSE]
    /\ ptrHead = [l \in Lists |-> Null]
    /\ heap = [n \in Nodes |-> FreeCell]
    /\ pc = "idle"
    /\ self = 0
    /\ arg = 0
    /\ dtor = FALSE
    /\ os = <<>>
    /\ ret = <<>>
    /\ err = "none"
    /\ log = <<>>
    /\ op = "none"
    /\ run = NoRun

\* A call of `name` on list object l, with the list argument `list`, begins.
Begin(name, l, list) ==
    /\ pc = "idle"
    /\ op' = name
    /\ self' = l
    /\ arg' = list

Outcome(bad) == IF bad THEN "undefined" ELSE "none"

\* ------------------------------------------------------------ operations
\* LinkedList() : ptrHead{nullptr} {}
Construct(l) ==
    /\ ~alive[l]
    /\ Begin("construct", l, 0)
    /\ alive' = [alive EXCEPT ![l] = TRUE]
    /\ ptrHead' = [ptrHead EXCEPT ![l] = Null]
    /\ run' = StartRun(l, <<>>)
    /\ os' = <<>> /\ ret' = <<>> /\ err' = "none" /\ log' = <<>>
    /\ UNCHANGED <<heap, pc, dtor>>

\* LinkedList(LinkedList& list)
CopyConstruct(l, list) ==
    /\ ~alive[l] /\ alive[list]
    /\ Cardinality(FreeNodes(heap)) >= Len(Chain(list))
    /\ Begin("copy", l, list)
    /\ LET r == CopyLoop(heap, Null, Null, ptrHead[list])
           \* ptrHead = std::move(ptrNewHead), ptrHead default constructed
           d == DeleteOwned(r.heap, Null)
       IN  /\ heap' = d.heap
           /\ ptrHead' = [ptrHead EXCEPT ![l] = r.head]
           /\ log' = d.log
           /\ err' = Outcome(d.bad)
    /\ alive' = [alive EXCEPT ![l] = TRUE]
    /\ run' = RunEnd(l)
    /\ os' = <<>> /\ ret' = <<>>
    /\ UNCHANGED <<pc, dtor>>

\* The move constructor taking list.ptrHead.get(): the source keeps its head.
MoveConstruct_shallow(l, list) ==
    /\ ~alive[l] /\ alive[list]
    /\ Begin("move", l, list)
    /\ ptrHead' = [ptrHead EXCEPT ![l] = ptrHead[list]]
    /\ alive' = [alive EXCEPT ![l] = TRUE]
    /\ run' = RunEnd(list)
    /\ os' = <<>> /\ ret' = <<>> /\ log' = <<>> /\ err' = "none"
    /\ UNCHANGED <<heap, pc, dtor>>

\* LinkedList(LinkedList&& list)
MoveConstruct(l, list) ==
    /\ ~alive[l] /\ alive[list]
    /\ Begin("move", l, list)
    /\ LET \* ptrHead = std::move(list.ptrHead), ptrHead default constructed
           p == ptrHead[list]
           d == DeleteOwned(heap, Null)
       IN  /\ heap' = d.heap
           /\ ptrHead' = [ptrHead EXCEPT ![list] = Null, ![l] = p]
           /\ log' = d.log
           /\ err' = Outcome(d.bad)
    /\ alive' = [alive EXCEPT ![l] = TRUE]
    /\ run' = RunEnd(list)
    /\ os' = <<>> /\ ret' = <<>>
    /\ UNCHANGED <<pc, dtor>>

\* push with `ptrTemp->ptrNext = std::move(ptrHead)` left out: the head then
\* still owns the old chain when it is assigned, and the assignment deletes it.
push_unlinked(l, data) ==
    /\ alive[l]
    /\ FreeNodes(heap) # {}
    /\ Begin("push", l, 0)
    /\ LET ptrTemp == Alloc(heap)
           h1 == [heap EXCEPT ![ptrTemp] = NewCell(data)]
           d2 == DeleteOwned(h1, ptrHead[l])
       IN  /\ heap' = d2.heap
           /\ ptrHead' = [ptrHead EXCEPT ![l] = ptrTemp]
           /\ log' = d2.log
           /\ err' = Outcome(d2.bad)
    /\ run' = RunPush(l, data, Sequence(l))
    /\ os' = <<>> /\ ret' = <<>>
    /\ UNCHANGED <<alive, pc, dtor>>

\* void push(const T& data)
push(l, data) ==
    /\ alive[l]
    /\ FreeNodes(heap) # {}
    /\ Begin("push", l, 0)
    /\ LET ptrTemp == Alloc(heap)
           h1 == [heap EXCEPT ![ptrTemp] = NewCell(data)]
           \* ptrTemp->ptrNext = std::move(ptrHead)
           old == h1[ptrTemp].ptrNext
           h2 == [h1 EXCEPT ![ptrTemp].ptrNext = ptrHead[l]]
           d1 == DeleteOwned(h2, old)
           \* ptrHead = std::move(ptrTemp); the head is null by now
           d2 == DeleteOwned(d1.heap, Null)
       IN  /\ heap' = d2.heap
           /\ ptrHead' = [ptrHead EXCEPT ![l] = ptrTemp]
           /\ log' = d1.log \o d2.log
           /\ err' = Outcome(d1.bad \/ d2.bad)
    /\ run' = RunPush(l, data, Sequence(l))
    /\ os' = <<>> /\ ret' = <<>>
    /\ UNCHANGED <<alive, pc, dtor>>

\* pop with ptrHead.release() before the assignment: the old head is dropped
\* from the list and never deleted.
pop_leaks(l) ==
    /\ alive[l]
    /\ Begin("pop", l, 0)
    /\ IF ptrHead[l] = Null
       THEN UNCHANGED ptrHead
       ELSE ptrHead' = [ptrHead EXCEPT ![l] = heap[ptrHead[l]].ptrNext]
    /\ log' = <<>> /\ err' = "none"
    /\ run' = RunPop(l)
    /\ os' = <<>> /\ ret' = <<>>
    /\ UNCHANGED <<heap, alive, pc, dtor>>

\* pop with the emptiness test answered by an exception, as peek does
pop_throws(l) ==
    /\ alive[l]
    /\ Begin("pop", l, 0)
    /\ IF ptrHead[l] = Null
       THEN /\ UNCHANGED <<heap, ptrHead>>
            /\ log' = <<>> /\ err' = "out_of_range"
       ELSE LET r == DetachHead(heap, ptrHead[l])
            IN  /\ heap' = r.heap
                /\ ptrHead' = [ptrHead EXCEPT ![l] = r.head]
                /\ log' = r.log
                /\ err' = Outcome(r.bad)
    /\ run' = RunPop(l)
    /\ os' = <<>> /\ ret' = <<>>
    /\ UNCHANGED <<alive, pc, dtor>>

\* void pop()
pop(l) ==
    /\ alive[l]
    /\ Begin("pop", l, 0)
    /\ IF ptrHead[l] = Null
       THEN /\ UNCHANGED <<heap, ptrHead>>
            /\ log' = <<>> /\ err' = "none"
       ELSE LET r == DetachHead(heap, ptrHead[l])
            IN  /\ heap' = r.heap
                /\ ptrHead' = [ptrHead EXCEPT ![l] = r.head]
                /\ log' = r.log
                /\ err' = Outcome(r.bad)
    /\ run' = RunPop(l)
    /\ os' = <<>> /\ ret' = <<>>
    /\ UNCHANGED <<alive, pc, dtor>>

\* peek without the test for an empty list: it reads whatever cell 0 holds
peek_unchecked(l) ==
    /\ alive[l]
    /\ Begin("peek", l, 0)
    /\ err' = "none"
    /\ ret' = <<IF ptrHead[l] = Null THEN 0 ELSE heap[ptrHead[l]].element>>
    /\ os' = <<>> /\ log' = <<>>
    /\ UNCHANGED <<alive, ptrHead, heap, pc, dtor, run>>

\* T peek() const
peek(l) ==
    /\ alive[l]
    /\ Begin("peek", l, 0)
    /\ IF ptrHead[l] = Null
       THEN /\ err' = "out_of_range"
            /\ ret' = <<>>
       ELSE /\ err' = "none"
            /\ ret' = <<heap[ptrHead[l]].element>>
    /\ os' = <<>> /\ log' = <<>>
    /\ UNCHANGED <<alive, ptrHead, heap, pc, dtor, run>>

\* void print(std::ostream& os) const
print(l) ==
    /\ alive[l]
    /\ Begin("print", l, 0)
    /\ os' = PrintLoop(heap, ptrHead[l], <<>>)
    /\ ret' = <<>> /\ err' = "none" /\ log' = <<>>
    /\ UNCHANGED <<alive, ptrHead, heap, pc, dtor, run>>

\* void clean(): the call
clean(l) ==
    /\ alive[l]
    /\ Begin("clean", l, 0)
    /\ pc' = "clean"
    /\ dtor' = FALSE
    /\ run' = RunEnd(l)
    /\ os' = <<>> /\ ret' = <<>> /\ err' = "none" /\ log' = <<>>
    /\ UNCHANGED <<alive, ptrHead, heap>>

\* ~LinkedList(): the call of clean() in it
Destroy(l) ==
    /\ alive[l]
    /\ Begin("destroy", l, 0)
    /\ pc' = "clean"
    /\ dtor' = TRUE
    /\ run' = RunEnd(l)
    /\ os' = <<>> /\ ret' = <<>> /\ err' = "none" /\ log' = <<>>
    /\ UNCHANGED <<alive, ptrHead, heap>>

\* clean() with no loop: it returns at once
CleanContinues_never(l) == FALSE

\* while (ptrHead)
CleanContinues(l) == ptrHead[l] # Null

\* one iteration of the loop of clean()
CleanStep ==
    /\ pc = "clean"
    /\ CleanContinues(self)
    /\ LET r == DetachHead(heap, ptrHead[self])
       IN  /\ heap' = r.heap
           /\ ptrHead' = [ptrHead EXCEPT ![self] = r.head]
           /\ log' = log \o r.log
           /\ err' = IF r.bad THEN "undefined" ELSE err
    /\ UNCHANGED <<alive, pc, self, arg, dtor, os, ret, op, run>>

\* clean() returns; in the destructor the member ptrHead is then destroyed
CleanReturn ==
    /\ pc = "clean"
    /\ ~CleanContinues(self)
    /\ pc' = "idle"
    /\ dtor' = FALSE
    /\ IF dtor
       THEN LET d == DeleteOwned(heap, ptrHead[self])
            IN  /\ heap' = d.heap
                /\ ptrHead' = [ptrHead EXCEPT ![self] = Null]
                /\ log' = log \o d.log
                /\ err' = IF d.bad THEN "undefined" ELSE err
                /\ alive' = [alive EXCEPT ![self] = FALSE]
       ELSE UNCHANGED <<heap, ptrHead, log, err, alive>>
    /\ UNCHANGED <<self, arg, os, ret, op, run>>

Next ==
    \/ \E l \in Lists : Construct(l)
    \/ \E l \in Lists, list \in Lists : CopyConstruct(l, list)
    \/ \E l \in Lists, list \in Lists : MoveConstruct(l, list)
    \/ \E l \in Lists, data \in Values : push(l, data)
    \/ \E l \in Lists : pop(l)
    \/ \E l \in Lists : peek(l)
    \/ \E l \in Lists : print(l)
    \/ \E l \in Lists : clean(l)
    \/ \E l \in Lists : Destroy(l)
    \/ CleanStep
    \/ CleanReturn

Spec == Init /\ [][Next]_vars

\* The program keeps executing the call it is in.
FairSpec == Spec /\ WF_vars(CleanStep) /\ WF_vars(CleanReturn)
\* ================================================================ claims
Last(s) == s[Len(s)]
LiveNodes == {n \in Nodes : heap[n].live}
NodesOf(l) == ToSet(Chain(l))
Released(n) == [node |-> n, next |-> Null, depth |-> 1]

\* C1: after a run of pushes v1..vN on a list (no pop or clean in between)
\* the list holds vN, ..., v1 followed by what it held before the run, a peek
\* then returns vN, and every push makes the list exactly one node longer
\* with the pushed value in front.
C1_PushIsLifo ==
    /\ [](run.phase = "push" =>
            Sequence(run.list) = Reverse(run.pushed) \o run.before)
    /\ [][\A l \in Lists, v \in Values :
            push(l, v) => /\ Sequence(l)' = <<v>> \o Sequence(l)
                          /\ Len(Chain(l)') = Len(Chain(l)) + 1]_vars
    /\ [][\A l \in Lists :
            peek(l) /\ run.list = l /\ run.phase = "push" /\ run.pushed # <<>>
            => ret' = <<Last(run.pushed)>> /\ err' = "none"]_vars

\* C1 witness: two different values were pushed in a row onto a non-empty
\* list and the peek that followed returned the second.
C1_Witness ==
    /\ run.phase = "push" /\ Len(run.pushed) >= 2 /\ run.before # <<>>
    /\ run.pushed[1] # run.pushed[2]
    /\ op = "peek" /\ self = run.list /\ ret = <<Last(run.pushed)>>

\* C2: peek throws out_of_range exactly when the list has no head, returns
\* the head's element otherwise, never changes a list or a node, what a
\* peek gave is what a second peek right after it gives, and out_of_range
\* is thrown by no other call.
C2_PeekThrowsOnlyWhenEmpty ==
    /\ [][\A l \in Lists :
            peek(l) => /\ (err' = "out_of_range") <=> (ptrHead[l] = Null)
                       /\ (ptrHead[l] # Null => /\ ret' = <<Sequence(l)[1]>>
                                                /\ err' = "none")
                       /\ UNCHANGED <<heap, ptrHead, alive>>]_vars
    /\ [](op = "peek" =>
            /\ (err = "out_of_range") <=> (ptrHead[self] = Null)
            /\ ret = (IF ptrHead[self] = Null THEN <<>>
                      ELSE <<heap[ptrHead[self]].element>>))
    /\ [](err = "out_of_range" => op = "peek")

\* C2 witness: a peek on an empty list threw while another list held nodes.
C2_Witness ==
    /\ op = "peek" /\ err = "out_of_range" /\ ptrHead[self] = Null
    /\ \E l \in Lists : alive[l] /\ ptrHead[l] # Null

\* C3: after N >= 0 pushes onto an empty list and k pops the list holds
\* N - k nodes, none once k >= N; a pop on an empty list throws nothing,
\* releases nothing and leaves every list and node as it was.
C3_PopsEmptyTheList ==
    /\ [](run.phase = "pop" =>
            /\ Len(Chain(run.list)) =
                 (IF run.pops >= run.n THEN 0 ELSE run.n - run.pops)
            /\ (run.pops >= run.n => ptrHead[run.list] = Null))
    /\ [][\A l \in Lists :
            pop(l) /\ ptrHead[l] = Null
            => /\ err' = "none" /\ log' = <<>>
               /\ UNCHANGED <<heap, ptrHead, alive>>]_vars

\* C3 witness: three pushes onto an empty list, three pops and one more pop.
C3_Witness ==
    /\ run.phase = "pop" /\ run.n >= 3 /\ run.pops = run.n + 1
    /\ op = "pop" /\ self = run.list /\ err = "none" /\ log = <<>>

\* C4: pop on a list holding x1, x2, ..., xk leaves x2, ..., xk in the same
\* nodes and order, releases the old head and only it, and changes no other
\* node and no other list.
C4_PopRemovesOnlyTheHead ==
    [][\A l \in Lists :
         pop(l) /\ ptrHead[l] # Null
         => /\ Sequence(l)' = Tail(Sequence(l))
            /\ Chain(l)' = Tail(Chain(l))
            /\ ptrHead'[l] = heap[ptrHead[l]].ptrNext
            /\ log' = <<Released(ptrHead[l])>>
            /\ ~heap'[ptrHead[l]].live
            /\ \A n \in Nodes \ {ptrHead[l]} : heap'[n] = heap[n]
            /\ \A b \in Lists \ {l} : ptrHead'[b] = ptrHead[b]
            /\ err' = "none"]_vars

\* C4 witness: a pop released one node of a list that still holds two with
\* different values.
C4_Witness ==
    /\ op = "pop" /\ Len(log) = 1
    /\ Len(Sequence(self)) >= 2 /\ Sequence(self)[1] # Sequence(self)[2]
\* What the other lists hold is as it was after a step on list a.
OthersKept(a) ==
    \A b \in Lists \ {a} :
        /\ alive'[b] = alive[b]
        /\ Chain(b)' = Chain(b)
        /\ Sequence(b)' = Sequence(b)

\* A step of push, pop or clean on list a, or of its destruction.
Mutates(a) ==
    \/ \E v \in Values : push(a, v)
    \/ pop(a)
    \/ clean(a)
    \/ Destroy(a)
    \/ self = a /\ (CleanStep \/ CleanReturn)

\* The nodes the lists other than l hold.
HeldByOthers(l) == UNION {NodesOf(b) : b \in {c \in Lists \ {l} : alive[c]}}

\* C5: clean always returns; when it has, the list is empty, every node it
\* held is released and no other is, a peek then throws out_of_range, a
\* print then writes the end marker only, and on an empty list clean throws
\* nothing and changes nothing.
C5_CleanEmptiesTheList ==
    /\ (pc = "clean") ~> (pc = "idle")
    /\ [](op = "clean" /\ pc = "idle" =>
            /\ alive[self] /\ ptrHead[self] = Null /\ Sequence(self) = <<>>
            /\ LiveNodes = HeldByOthers(self)
            /\ err = "none")
    /\ [][\A l \in Lists :
            op = "clean" /\ pc = "idle" /\ self = l /\ peek(l)
            => err' = "out_of_range"]_vars
    /\ [][\A l \in Lists :
            op = "clean" /\ pc = "idle" /\ self = l /\ print(l)
            => os' = <<"NULL", "\n">>]_vars
    /\ [][CleanReturn /\ op = "clean" /\ log = <<>>
            => UNCHANGED <<heap, ptrHead, alive, err, log>>]_vars
    /\ [][\A l \in Lists : self = l /\ (CleanStep \/ CleanReturn)
            => OthersKept(l)]_vars

\* C5 witness: clean has returned after releasing two nodes, and a list
\* that was not cleaned still holds one.
C5_Witness ==
    /\ op = "clean" /\ pc = "idle" /\ Len(log) >= 2
    /\ \E b \in Lists \ {self} : alive[b] /\ ptrHead[b] # Null

\* C6: the move constructor gives the new list the nodes of its argument, in
\* order, allocating and releasing none, and leaves the argument an empty
\* list: a peek on it throws, a print of it writes the end marker only, and
\* no push, pop, clean or destruction of one list changes another.
C6_MoveTransfersTheChain ==
    /\ [][\A l \in Lists, list \in Lists :
            MoveConstruct(l, list)
            => /\ Chain(l)' = Chain(list)
               /\ Sequence(l)' = Sequence(list)
               /\ heap' = heap /\ log' = <<>> /\ err' = "none"
               /\ alive'[l] /\ alive'[list]
               /\ ptrHead'[list] = Null /\ Sequence(list)' = <<>>
               /\ \A b \in Lists \ {l, list} : ptrHead'[b] = ptrHead[b]]_vars
    /\ [][\A l \in Lists :
            op = "move" /\ arg = l /\ peek(l)
            => err' = "out_of_range"]_vars
    /\ [][\A l \in Lists :
            op = "move" /\ arg = l /\ print(l)
            => os' = <<"NULL", "\n">>]_vars
    /\ [][\A a \in Lists : Mutates(a) => OthersKept(a)]_vars

\* C6 witness: a list of two different values was moved from.
C6_Witness ==
    /\ op = "move" /\ alive[arg] /\ ptrHead[arg] = Null
    /\ Len(Sequence(self)) >= 2 /\ Sequence(self)[1] # Sequence(self)[2]

\* C7: the copy constructor gives the new list the values of its argument in
\* the same order, in nodes of its own, and changes no list and no node
\* that was live; no two lists ever share a node, and a push, pop or clean
\* on one list leaves the values and the length of every other as they were.
C7_CopyIsDeepAndIndependent ==
    /\ [][\A l \in Lists, list \in Lists :
            CopyConstruct(l, list)
            => /\ Sequence(l)' = Sequence(list)
               /\ Sequence(list)' = Sequence(list)
               /\ Chain(list)' = Chain(list)
               /\ NodesOf(l)' \cap LiveNodes = {}
               /\ NodesOf(l)' \cap NodesOf(list)' = {}
               /\ \A n \in LiveNodes : heap'[n] = heap[n]
               /\ \A b \in Lists \ {l} : ptrHead'[b] = ptrHead[b]
               /\ log' = <<>> /\ err' = "none"]_vars
    /\ [](\A a \in Lists, b \in Lists :
            a # b /\ alive[a] /\ alive[b] => NodesOf(a) \cap NodesOf(b) = {})
    /\ [][\A a \in Lists :
            self' = a /\ op' \in {"push", "pop", "clean"}
            => \A b \in Lists \ {a} :
                  /\ Sequence(b)' = Sequence(b)
                  /\ Len(Chain(b)') = Len(Chain(b))]_vars

\* C7 witness: a list of two different values was copied.
C7_Witness ==
    /\ op = "copy" /\ alive[arg] /\ Sequence(self) = Sequence(arg)
    /\ Len(Sequence(self)) >= 2 /\ Sequence(self)[1] # Sequence(self)[2]

\* C8: every iteration of clean releases the head and only it, with its
\* link already empty; in every call each ~Node() runs at depth 1 on a node
\* whose link is empty; and the destructor releases nothing after its clean.
C8_TeardownNeverCascades ==
    /\ [][CleanStep
            => /\ log' = Append(log, Released(ptrHead[self]))
               /\ Chain(self)' = Tail(Chain(self))
               /\ LiveNodes' = LiveNodes \ {ptrHead[self]}]_vars
    /\ [](\A i \in 1..Len(log) : log[i].depth = 1 /\ log[i].next = Null)
    /\ [][CleanReturn => log' = log /\ heap' = heap]_vars
    /\ [](op = "destroy" /\ pc = "idle" =>
            ~alive[self] /\ LiveNodes = HeldByOthers(self))

\* C8 witness: a list of three nodes was destroyed.
C8_Witness ==
    /\ op = "destroy" /\ pc = "idle" /\ Len(log) >= 3

\* What print writes for the values s.
Shown(s) ==
    [i \in 1..(2 * Len(s) + 2) |->
        IF i = 2 * Len(s) + 1 THEN "NULL"
        ELSE IF i = 2 * Len(s) + 2 THEN "\n"
        ELSE IF i % 2 = 1 THEN ToString(s[(i + 1) \div 2])
        ELSE " -> "]

\* C9: print changes no list and no node, writes the values from head to
\* tail, each followed by the separator, then the end marker, and for an
\* empty list the end marker only, throwing nothing.
C9_PrintIsReadOnly ==
    [][\A l \in Lists :
         print(l)
         => /\ UNCHANGED <<heap, ptrHead, alive>>
            /\ os' = Shown(Sequence(l))
            /\ (ptrHead[l] = Null => os' = <<"NULL", "\n">>)
            /\ err' = "none" /\ log' = <<>>]_vars

\* C9 witness: a list of two different values was printed.
C9_Witness ==
    /\ op = "print" /\ Len(os) = 6 /\ os[1] # os[3]
    /\ Len(Sequence(self)) = 2

\* The owners of node n: list heads and links of live nodes.
Owners(n) ==
    {<<"head", l>> : l \in {k \in Lists : alive[k] /\ ptrHead[k] = n}}
    \cup {<<"next", m>> : m \in {k \in Nodes : heap[k].live
                                              /\ heap[k].ptrNext = n}}

\* C10: in every state each list's chain is finite and without repetition,
\* every live node has exactly one owner, no two lists reach a common node,
\* no link points to a released node, nothing was released twice, every live
\* node is held by a list, and with every list destroyed no node is live.
C10_Ownership ==
    /\ \A l \in Lists :
          alive[l] => /\ Len(Chain(l)) <= MaxNodes
                      /\ Cardinality(NodesOf(l)) = Len(Chain(l))
    /\ \A n \in LiveNodes : Cardinality(Owners(n)) = 1
    /\ \A a \in Lists, b \in Lists :
          a # b /\ alive[a] /\ alive[b] => NodesOf(a) \cap NodesOf(b) = {}
    /\ \A l \in Lists :
          alive[l] /\ ptrHead[l] # Null => heap[ptrHead[l]].live
    /\ \A n \in LiveNodes :
          heap[n].ptrNext # Null => heap[heap[n].ptrNext].live
    /\ err # "undefined"
    /\ LiveNodes = UNION {NodesOf(l) : l \in {k \in Lists : alive[k]}}
    /\ ((\A l \in Lists : ~alive[l]) => LiveNodes = {})

\* C10 witness: after a pop released a node, two lists hold nodes, one of
\* them two.
C10_Witness ==
    /\ op = "pop" /\ log # <<>>
    /\ \E a \in Lists, b \in Lists :
          /\ a # b /\ alive[a] /\ alive[b]
          /\ Len(Chain(a)) >= 2 /\ Len(Chain(b)) >= 1
====
